---- MODULE Spec2Model ----
(***************************************************************************)
(* cargo-generate-rpm: resolution of the package.metadata.generate-rpm     *)
(* configuration (src/src/config.rs) and its errors (src/src/error.rs).     *)
(*                                                                         *)
(* Data strings (values read from the manifest, paths) are sequences of    *)
(* one-character strings, so that ends_with, joining and octal parsing are *)
(* computed on the characters.  Static strings of the program (field       *)
(* names, error paths) are TLA+ strings.                                   *)
(***************************************************************************)
EXTENDS Integers, Sequences, FiniteSets, TLC

\* ------------------------------------------------------------------------
\* Option and Result
\* ------------------------------------------------------------------------
None == [some |-> FALSE]
Some(v) == [some |-> TRUE, val |-> v]
Ok(v) == [ok |-> TRUE, val |-> v]
Err(e) == [ok |-> FALSE, err |-> e]

\* ------------------------------------------------------------------------
\* toml values and their narrowing accessors
\* ------------------------------------------------------------------------
\* A value is the pair of its variant and its content.
StringV(s) == <<"String", s>>
IntegerV(i) == <<"Integer", i>>
BooleanV(b) == <<"Boolean", b>>
TableV(t) == <<"Table", t>>
ArrayV(a) == <<"Array", a>>

as_str(v) == IF v[1] = "String" THEN Some(v[2]) ELSE None
as_integer(v) == IF v[1] = "Integer" THEN Some(v[2]) ELSE None
as_bool(v) == IF v[1] = "Boolean" THEN Some(v[2]) ELSE None
as_table(v) == IF v[1] = "Table" THEN Some(v[2]) ELSE None
as_array(v) == IF v[1] = "Array" THEN Some(v[2]) ELSE None

\* A table is a function from its keys; the empty table has the empty domain.
EmptyTable == [k \in {} |-> None]
Get(table, key) == IF key \in DOMAIN table THEN Some(table[key]) ELSE None

\* ------------------------------------------------------------------------
\* ConfigError and Error (error.rs)
\* ------------------------------------------------------------------------
Missing(field) == <<"Missing", field>>
WrongType(field, expected) == <<"WrongType", field, expected>>
AssetFileUndefined(idx, field) == <<"AssetFileUndefined", idx, field>>
AssetFileWrongType(idx, field, expected) == <<"AssetFileWrongType", idx, field, expected>>
AssetFileNotFound(source) == <<"AssetFileNotFound", source>>
\* Error::Config(#[from] ConfigError) and Error::Rpm(#[from] RPMError)
ErrorConfig(e) == <<"Config", e>>
ErrorRpm == <<"Rpm">>

\* ------------------------------------------------------------------------
\* Octal parsing and the mode bits
\* ------------------------------------------------------------------------
UsizeBits == 64
S_IFMT == 61440     \* 0o170000
S_IFDIR == 16384    \* 0o040000
S_IFREG == 32768    \* 0o100000

OctDigit == ("0" :> 0) @@ ("1" :> 1) @@ ("2" :> 2) @@ ("3" :> 3) @@
            ("4" :> 4) @@ ("5" :> 5) @@ ("6" :> 6) @@ ("7" :> 7)

RECURSIVE StripZeros(_)
StripZeros(s) == IF s # <<>> /\ Head(s) = "0" THEN StripZeros(Tail(s)) ELSE s

RECURSIVE DigitsValue(_, _)
DigitsValue(s, acc) ==
    IF s = <<>> THEN acc ELSE DigitsValue(Tail(s), acc * 8 + OctDigit[Head(s)])

\* A numeral of n significant octal digits is below 2^UsizeBits iff it has
\* fewer than ceil(UsizeBits/3) digits, or exactly that many with a leading
\* digit below 2^(UsizeBits mod 3) (for 64 bits: 22 digits, leading digit 1).
FitsUsize(sig) ==
    LET full == UsizeBits \div 3
        rest == UsizeBits % 3
    IN  \/ Len(sig) <= full
        \/ /\ rest > 0
           /\ Len(sig) = full + 1
           /\ OctDigit[Head(sig)] < 2 ^ rest

\* usize::from_str_radix(s, 8): an empty string, a lone sign, a '-' (usize is
\* unsigned), a character that is no octal digit, and a value that does not
\* fit usize are errors; one leading '+' is accepted.
from_str_radix8(s) ==
    IF s = <<>> THEN Err("Empty")
    ELSE IF Len(s) = 1 /\ Head(s) \in {"+", "-"} THEN Err("InvalidDigit")
    ELSE LET digits == IF Head(s) = "+" THEN Tail(s) ELSE s IN
         IF \E i \in 1..Len(digits) : digits[i] \notin DOMAIN OctDigit
         THEN Err("InvalidDigit")
         ELSE IF ~FitsUsize(StripZeros(digits)) THEN Err("PosOverflow")
         ELSE Ok(DigitsValue(digits, 0))

RECURSIVE BitAnd(_, _)
BitAnd(a, b) ==
    IF a = 0 \/ b = 0 THEN 0
    ELSE (a % 2) * (b % 2) + 2 * BitAnd(a \div 2, b \div 2)

RECURSIVE BitOr(_, _)
BitOr(a, b) ==
    IF a = 0 THEN b
    ELSE IF b = 0 THEN a
    ELSE (IF a % 2 = 1 \/ b % 2 = 1 THEN 1 ELSE 0) + 2 * BitOr(a \div 2, b \div 2)

ends_with_slash(s) == s # <<>> /\ s[Len(s)] = "/"

\* ------------------------------------------------------------------------
\* The per-field getters of an asset table
\* ------------------------------------------------------------------------
_get_source(table, idx) ==
    LET v == Get(table, "source") IN
    IF ~v.some THEN Err(AssetFileUndefined(idx, "source"))
    ELSE IF ~as_str(v.val).some THEN Err(AssetFileWrongType(idx, "source", "string"))
    ELSE Ok(as_str(v.val).val)

\* _get_dest with a default in place of the error for an absent key.
_get_dest_default(table, idx) ==
    LET v == Get(table, "dest") IN
    IF ~v.some THEN Ok(<<>>)
    ELSE IF ~as_str(v.val).some THEN Err(AssetFileWrongType(idx, "dest", "string"))
    ELSE Ok(as_str(v.val).val)

_get_dest(table, idx) ==
    LET v == Get(table, "dest") IN
    IF ~v.some THEN Err(AssetFileUndefined(idx, "dest"))
    ELSE IF ~as_str(v.val).some THEN Err(AssetFileWrongType(idx, "dest", "string"))
    ELSE Ok(as_str(v.val).val)

_get_user(table, idx) ==
    LET v == Get(table, "user") IN
    IF v.some
    THEN IF ~as_str(v.val).some THEN Err(AssetFileWrongType(idx, "user", "string"))
         ELSE Ok(Some(as_str(v.val).val))
    ELSE Ok(None)

_get_group(table, idx) ==
    LET v == Get(table, "group") IN
    IF v.some
    THEN IF ~as_str(v.val).some THEN Err(AssetFileWrongType(idx, "group", "string"))
         ELSE Ok(Some(as_str(v.val).val))
    ELSE Ok(None)

\* _get_mode with the trailing separator of the source ignored: the type
\* bits synthesized are always those of a regular file.
_get_mode_always_regular(table, source, idx) ==
    LET v == Get(table, "mode") IN
    IF v.some
    THEN IF ~as_str(v.val).some THEN Err(AssetFileWrongType(idx, "mode", "string"))
         ELSE LET parsed == from_str_radix8(as_str(v.val).val) IN
              IF ~parsed.ok THEN Err(AssetFileWrongType(idx, "mode", "oct-string"))
              ELSE Ok(Some(IF BitAnd(parsed.val, S_IFMT) # 0 THEN parsed.val
                           ELSE BitOr(S_IFREG, parsed.val)))
    ELSE Ok(None)

\* _get_mode with one error for every unusable value, whatever its type.
_get_mode_one_error(table, source, idx) ==
    LET v == Get(table, "mode") IN
    IF v.some
    THEN IF ~as_str(v.val).some \/ ~from_str_radix8(as_str(v.val).val).ok
         THEN Err(AssetFileWrongType(idx, "mode", "oct-string"))
         ELSE LET mode == from_str_radix8(as_str(v.val).val).val IN
              Ok(Some(IF BitAnd(mode, S_IFMT) # 0 THEN mode
                      ELSE IF ends_with_slash(source) THEN BitOr(S_IFDIR, mode)
                      ELSE BitOr(S_IFREG, mode)))
    ELSE Ok(None)

_get_mode(table, source, idx) ==
    LET v == Get(table, "mode") IN
    IF v.some
    THEN IF ~as_str(v.val).some THEN Err(AssetFileWrongType(idx, "mode", "string"))
         ELSE LET parsed == from_str_radix8(as_str(v.val).val) IN
              IF ~parsed.ok THEN Err(AssetFileWrongType(idx, "mode", "oct-string"))
              ELSE LET mode == parsed.val
                       file_mode == IF BitAnd(mode, S_IFMT) # 0 THEN None
                                    ELSE IF ends_with_slash(source) THEN Some(S_IFDIR)
                                    ELSE Some(S_IFREG)
                       \* unwrap_or_default(): 0 for None
                       bits == IF file_mode.some THEN file_mode.val ELSE 0
                   IN  Ok(Some(BitOr(bits, mode)))
    ELSE Ok(None)

_get_config(table, idx) ==
    LET v == Get(table, "config") IN
    IF v.some
    THEN IF ~as_bool(v.val).some THEN Err(AssetFileWrongType(idx, "config", "bool"))
         ELSE Ok(as_bool(v.val).val)
    ELSE Ok(FALSE)

_get_doc(table, idx) ==
    LET v == Get(table, "doc") IN
    IF v.some
    THEN IF ~as_bool(v.val).some THEN Err(AssetFileWrongType(idx, "doc", "bool"))
         ELSE Ok(as_bool(v.val).val)
    ELSE Ok(FALSE)

FileInfo(source, dest, user, group, mode, config, doc) ==
    [source |-> source, dest |-> dest, user |-> user, group |-> group,
     mode |-> mode, config |-> config, doc |-> doc]

\* _handle_file with the optional keys read before the required ones.
_handle_file_optional_first(table, idx) ==
    LET user == _get_user(table, idx) IN
    IF ~user.ok THEN user ELSE
    LET group == _get_group(table, idx) IN
    IF ~group.ok THEN group ELSE
    LET config == _get_config(table, idx) IN
    IF ~config.ok THEN config ELSE
    LET doc == _get_doc(table, idx) IN
    IF ~doc.ok THEN doc ELSE
    LET source == _get_source(table, idx) IN
    IF ~source.ok THEN source ELSE
    LET dest == _get_dest(table, idx) IN
    IF ~dest.ok THEN dest ELSE
    LET mode == _get_mode(table, source.val, idx) IN
    IF ~mode.ok THEN mode ELSE
    Ok(FileInfo(source.val, dest.val, user.val, group.val, mode.val,
                config.val, doc.val))

\* Each `?` returns the first error, in the order the statements are written.
_handle_file(table, idx) ==
    LET source == _get_source(table, idx) IN
    IF ~source.ok THEN source ELSE
    LET dest == _get_dest(table, idx) IN
    IF ~dest.ok THEN dest ELSE
    LET user == _get_user(table, idx) IN
    IF ~user.ok THEN user ELSE
    LET group == _get_group(table, idx) IN
    IF ~group.ok THEN group ELSE
    LET mode == _get_mode(table, source.val, idx) IN
    IF ~mode.ok THEN mode ELSE
    LET config == _get_config(table, idx) IN
    IF ~config.ok THEN config ELSE
    LET doc == _get_doc(table, idx) IN
    IF ~doc.ok THEN doc ELSE
    Ok(FileInfo(source.val, dest.val, user.val, group.val, mode.val,
                config.val, doc.val))

\* ------------------------------------------------------------------------
\* Config::metadata and the head of Config::files
\* ------------------------------------------------------------------------
\* metadata with the generate-rpm key looked up before the metadata value is
\* known to be a table: a value that is no table has no such key.
metadata_lookup_first(m) ==
    IF ~m.package.some THEN Err(Missing("package")) ELSE
    LET pkg == m.package.val IN
    IF ~pkg.metadata.some THEN Err(Missing("package.metadata")) ELSE
    LET meta == as_table(pkg.metadata.val) IN
    IF ~meta.some \/ ~Get(meta.val, "generate-rpm").some
    THEN Err(Missing("package.metadata.generate-rpm")) ELSE
    LET rpm == as_table(Get(meta.val, "generate-rpm").val) IN
    IF ~rpm.some THEN Err(WrongType("package.metadata.generate-rpm", "table"))
    ELSE Ok(rpm.val)

\* manifest.package is Option<Package>; a package has name, version,
\* license: Option, description: Option and metadata: Option<Value>.
metadata(m) ==
    IF ~m.package.some THEN Err(Missing("package")) ELSE
    LET pkg == m.package.val IN
    IF ~pkg.metadata.some THEN Err(Missing("package.metadata")) ELSE
    LET meta == as_table(pkg.metadata.val) IN
    IF ~meta.some THEN Err(WrongType("package.metadata", "table")) ELSE
    LET found == Get(meta.val, "generate-rpm") IN
    IF ~found.some THEN Err(Missing("package.metadata.generate-rpm")) ELSE
    LET rpm == as_table(found.val) IN
    IF ~rpm.some THEN Err(WrongType("package.metadata.generate-rpm", "table"))
    ELSE Ok(rpm.val)

\* Lines 58-66 of files(): the assets array, or the error locating it.
files_assets(m) ==
    LET md == metadata(m) IN
    IF ~md.ok THEN md ELSE
    LET assets == Get(md.val, "assets") IN
    IF ~assets.some THEN Err(Missing("package.metadata.generate-rpm.assets")) ELSE
    LET arr == as_array(assets.val) IN
    IF ~arr.some THEN Err(WrongType("package.metadata.generate-rpm.assets", "array"))
    ELSE Ok(arr.val)

\* One iteration of the loop of files() on element `value` at index idx.
files_element(value, idx) ==
    LET table == as_table(value) IN
    IF ~table.some THEN Err(AssetFileUndefined(idx, "source"))
    ELSE _handle_file(table.val, idx)

\* ------------------------------------------------------------------------
\* Config::create_rpm_builder
\* ------------------------------------------------------------------------
\* concat!("package.metadata.generate-rpm.", $name)
MetaPath ==
    ("name" :> "package.metadata.generate-rpm.name") @@
    ("version" :> "package.metadata.generate-rpm.version") @@
    ("license" :> "package.metadata.generate-rpm.license") @@
    ("summary" :> "package.metadata.generate-rpm.summary") @@
    ("release" :> "package.metadata.generate-rpm.release") @@
    ("epoch" :> "package.metadata.generate-rpm.epoch") @@
    ("pre_install_script" :> "package.metadata.generate-rpm.pre_install_script") @@
    ("pre_uninstall_script" :> "package.metadata.generate-rpm.pre_uninstall_script") @@
    ("post_install_script" :> "package.metadata.generate-rpm.post_install_script") @@
    ("post_uninstall_script" :> "package.metadata.generate-rpm.post_uninstall_script")

get_str_from_metadata(md, name) ==
    LET val == Get(md, name) IN
    IF val.some
    THEN IF ~as_str(val.val).some THEN Err(WrongType(MetaPath[name], "string"))
         ELSE Ok(Some(as_str(val.val).val))
    ELSE Ok(None)

get_i64_from_metadata(md, name) ==
    LET val == Get(md, name) IN
    IF val.some
    THEN IF ~as_integer(val.val).some THEN Err(WrongType(MetaPath[name], "integer"))
         ELSE Ok(Some(as_integer(val.val).val))
    ELSE Ok(None)

unwrap_or(opt, default) == IF opt.some THEN opt.val ELSE default

\* std::env::consts::ARCH of the build, and its RPM name.
HostArch == <<"x", "8", "6">>
RpmArch(a) ==
    CASE a = <<"x", "8", "6">> -> <<"i", "5", "8", "6">>
      [] a = <<"a", "r", "m">> -> <<"a", "r", "m", "h", "f", "p">>
      [] a = <<"p", "o", "w", "e", "r", "p", "c">> -> <<"p", "p", "c">>
      [] a = <<"p", "o", "w", "e", "r", "p", "c", "6", "4">> -> <<"p", "p", "c", "6", "4">>
      [] OTHER -> a

\* pkg.license.as_ref().ok_or(Missing("package.license"))? is the ARGUMENT of
\* unwrap_or: it is evaluated, and its `?` returns, before unwrap_or looks at
\* the value read from the metadata.
resolve_license(md, pkg) ==
    LET fromMeta == get_str_from_metadata(md, "license") IN
    IF ~fromMeta.ok THEN fromMeta ELSE
    IF ~pkg.license.some THEN Err(Missing("package.license"))
    ELSE Ok(unwrap_or(fromMeta.val, pkg.license.val))

resolve_desc(md, pkg) ==
    LET fromMeta == get_str_from_metadata(md, "summary") IN
    IF ~fromMeta.ok THEN fromMeta ELSE
    IF ~pkg.description.some THEN Err(Missing("package.description"))
    ELSE Ok(unwrap_or(fromMeta.val, pkg.description.val))

\* Lines 82-141: the package scalars and RPMBuilder::new(..).compression(gzip).
builder_new(m, target_arch) ==
    LET md == metadata(m) IN
    IF ~md.ok THEN md ELSE
    IF ~m.package.some THEN Err(Missing("package")) ELSE
    LET pkg == m.package.val
        name == get_str_from_metadata(md.val, "name")
    IN
    IF ~name.ok THEN name ELSE
    LET version == get_str_from_metadata(md.val, "version") IN
    IF ~version.ok THEN version ELSE
    LET license == resolve_license(md.val, pkg) IN
    IF ~license.ok THEN license ELSE
    LET arch == unwrap_or(target_arch, RpmArch(HostArch))
        desc == resolve_desc(md.val, pkg)
    IN
    IF ~desc.ok THEN desc ELSE
    Ok([name |-> unwrap_or(name.val, pkg.name),
        version |-> unwrap_or(version.val, pkg.version),
        license |-> license.val,
        arch |-> arch,
        desc |-> desc.val,
        compression |-> "gzip",
        files |-> <<>>,
        release |-> None,
        epoch |-> None,
        scripts |-> EmptyTable])

\* `mode as i32`, on the range TLC's integers cover.
AsI32(n) == IF n <= 2147483647 THEN n ELSE n - 2147483647 - 2147483647 - 2
\* `release as u16`: the low 16 bits.
AsU16(n) == n % 65536

generate_rpm_file_options(file) ==
    [dest |-> file.dest,
     user |-> file.user,
     group |-> file.group,
     mode |-> IF file.mode.some THEN Some(AsI32(file.mode.val)) ELSE None,
     config |-> file.config,
     doc |-> file.doc]

is_absolute(p) == p # <<>> /\ Head(p) = "/"

\* Path::join: an absolute argument replaces the base; an empty base adds
\* nothing; otherwise the two are joined by one separator.
PathJoin(base, p) ==
    IF is_absolute(p) THEN p
    ELSE IF base = <<>> THEN p
    ELSE IF base[Len(base)] = "/" THEN base \o p
    ELSE base \o <<"/">> \o p

\* The two candidates of line 145-148, in the order of the array.
candidates(parent, source) == <<source, PathJoin(parent, source)>>

\* find_existing with the manifest-relative candidate preferred.
find_existing_manifest_first(cands, exists) ==
    IF exists[2] THEN Some(cands[2])
    ELSE IF exists[1] THEN Some(cands[1])
    ELSE None

\* [..].iter().find(|v| v.exists()): the first candidate that exists.
\* `exists` gives, per candidate, what the filesystem answers.
find_existing(cands, exists) ==
    IF exists[1] THEN Some(cands[1])
    ELSE IF exists[2] THEN Some(cands[2])
    ELSE None

ScriptKeys == <<"pre_install_script", "pre_uninstall_script",
                "post_install_script", "post_uninstall_script">>

RECURSIVE apply_scripts(_, _, _)
apply_scripts(md, b, i) ==
    IF i > Len(ScriptKeys) THEN Ok(b) ELSE
    LET s == get_str_from_metadata(md, ScriptKeys[i]) IN
    IF ~s.ok THEN s
    ELSE apply_scripts(md,
            IF s.val.some
            THEN [b EXCEPT !.scripts = (ScriptKeys[i] :> s.val.val) @@ @]
            ELSE b,
            i + 1)

\* Lines 157-177: release, epoch and the four scripts.
builder_tail(md, b) ==
    LET release == get_i64_from_metadata(md, "release") IN
    IF ~release.ok THEN release ELSE
    LET b1 == IF release.val.some
              THEN [b EXCEPT !.release = Some(AsU16(release.val.val))] ELSE b
        epoch == get_i64_from_metadata(md, "epoch")
    IN
    IF ~epoch.ok THEN epoch ELSE
    LET b2 == IF epoch.val.some
              THEN [b1 EXCEPT !.epoch = Some(AsI32(epoch.val.val))] ELSE b1
    IN  apply_scripts(md, b2, 1)

\* The `?` of create_rpm_builder: From<ConfigError> for Error.
into_error(r) == IF r.ok THEN r ELSE Err(ErrorConfig(r.err))

\* ------------------------------------------------------------------------
\* State
\* ------------------------------------------------------------------------
VARIABLES
    manifest,   \* Config.manifest, as parsed
    parent,     \* Config.path.parent()
    call,       \* the function being run
    pc,         \* its position
    files,      \* files(): the Vec<FileInfo> being filled
    idx,        \* files(): the index of the loop
    examined,   \* files(): the indices whose element the loop has looked at
    builder,    \* create_rpm_builder: the RPMBuilder
    pos,        \* create_rpm_builder: the index of the loop over the files
    probes,     \* create_rpm_builder: per located file, the candidates, what the
                \* filesystem held for each, and the path given to with_file
    result,     \* the value returned, once pc = "done"
    table,      \* _handle_file / _get_mode called alone: the asset table
    tidx        \* _handle_file / _get_mode called alone: the index passed

vars == <<manifest, parent, call, pc, files, idx, examined, builder, pos,
          probes, result, table, tidx>>

\* ------------------------------------------------------------------------
\* Inputs
\* ------------------------------------------------------------------------
MaxAssets == 2

sFile == <<"f">>
sDir == <<"d", "/">>
sDest == <<"/", "x">>
sText == <<"s">>
s644 == <<"6", "4", "4">>
s755 == <<"7", "5", "5">>

Package(license, description, meta) ==
    [name |-> <<"n">>, version |-> <<"1">>, license |-> license,
     description |-> description, metadata |-> meta]

RpmManifest(rpm, license, description) ==
    [package |-> Some(Package(license, description,
                    Some(TableV("generate-rpm" :> TableV(rpm)))))]

\* One manifest per place where the chain package -> metadata ->
\* generate-rpm -> assets can break.
ChainManifests ==
    { [package |-> None],
      [package |-> Some(Package(Some(sText), Some(sText), None))],
      [package |-> Some(Package(Some(sText), Some(sText), Some(IntegerV(1))))],
      [package |-> Some(Package(Some(sText), Some(sText), Some(TableV(EmptyTable))))],
      [package |-> Some(Package(Some(sText), Some(sText),
                        Some(TableV("generate-rpm" :> StringV(sText)))))],
      RpmManifest(EmptyTable, Some(sText), Some(sText)),
      RpmManifest("assets" :> StringV(sText), Some(sText), Some(sText)),
      RpmManifest("assets" :> TableV(EmptyTable), Some(sText), Some(sText)) }

\* Elements of the assets array: valid tables (a file with a mode and nothing
\* optional, a directory with every key, empty source and dest), tables with
\* one defect, tables with a defective required and a defective optional
\* key, and a value that is no table.
AssetElems ==
    { TableV(("source" :> StringV(sFile)) @@ ("dest" :> StringV(sDest)) @@
             ("mode" :> StringV(s644))),
      TableV(("source" :> StringV(sDir)) @@ ("dest" :> StringV(sDest)) @@
             ("user" :> StringV(sText)) @@ ("group" :> StringV(sText)) @@
             ("mode" :> StringV(s755)) @@ ("config" :> BooleanV(TRUE)) @@
             ("doc" :> BooleanV(TRUE))),
      TableV(("source" :> StringV(<<>>)) @@ ("dest" :> StringV(<<>>))),
      TableV("source" :> StringV(sFile)),
      TableV(("dest" :> StringV(sDest)) @@ ("mode" :> IntegerV(644))),
      TableV(("source" :> StringV(sFile)) @@ ("dest" :> StringV(sDest)) @@
             ("mode" :> StringV(<<"8">>))),
      TableV(("source" :> StringV(sFile)) @@ ("dest" :> StringV(sDest)) @@
             ("doc" :> StringV(sText))),
      StringV(sFile) }

Arrays(n) == UNION { [1..k -> AssetElems] : k \in 0..n }

WithAssets(rpm, arr) == rpm @@ ("assets" :> ArrayV(arr))

\* The scalar keys of the generate-rpm table: license and summary absent,
\* a string, or not a string, and at most one of the other keys present,
\* as a string or as an integer.
OtherKeys == {"name", "version", "release", "epoch", "pre_install_script",
              "pre_uninstall_script", "post_install_script",
              "post_uninstall_script"}
OtherTables ==
    {EmptyTable} \cup { k :> v : k \in OtherKeys, v \in {StringV(sText), IntegerV(65537)} }
LicenseTables ==
    {EmptyTable, "license" :> StringV(sText), "license" :> IntegerV(1)}
SummaryTables ==
    {EmptyTable, "summary" :> StringV(sText), "summary" :> IntegerV(1)}
ScalarTables ==
    { o @@ l @@ s : o \in OtherTables, l \in LicenseTables, s \in SummaryTables }
OptStrings == {None, Some(<<"p">>)}

\* Every scalar setting with arrays of at most one element; arrays of up to
\* MaxAssets elements with no scalar key in the metadata.
BuilderManifests ==
    ChainManifests
    \cup { RpmManifest(WithAssets(t, a), l, d) :
             t \in ScalarTables, a \in Arrays(1), l \in OptStrings, d \in OptStrings }
    \cup { RpmManifest(WithAssets(EmptyTable, a), l, Some(sText)) :
             a \in Arrays(MaxAssets), l \in OptStrings }

FilesManifests ==
    ChainManifests
    \cup { RpmManifest(WithAssets(EmptyTable, a), Some(sText), Some(sText)) :
             a \in Arrays(MaxAssets) }

Parents == {<<>>, <<"p">>}
TargetArchs == {None, Some(<<"n", "o", "a", "r", "c", "h">>)}

\* ------------------------------------------------------------------------
\* Init: a Config as Config::new leaves it, and the call made on it
\* ------------------------------------------------------------------------
InitFiles ==
    /\ call = "files"
    /\ pc = "files"
    /\ manifest \in FilesManifests
    /\ parent = <<>>

InitBuilder ==
    /\ call = "create_rpm_builder"
    /\ pc = "call"
    /\ manifest \in BuilderManifests
    /\ parent \in Parents

Init ==
    /\ InitFiles \/ InitBuilder
    /\ files = <<>>
    /\ idx = 0
    /\ examined = <<>>
    /\ builder = None
    /\ pos = 0
    /\ probes = <<>>
    /\ result = None
    /\ table = EmptyTable
    /\ tidx = 0

\* ------------------------------------------------------------------------
\* Actions
\* ------------------------------------------------------------------------
\* `return`, through the `?` of the function running.
Return(r) ==
    /\ result' = IF call = "create_rpm_builder" THEN into_error(r) ELSE r
    /\ pc' = "done"

\* create_rpm_builder, lines 82-141.
BuilderNew ==
    /\ call = "create_rpm_builder"
    /\ pc = "call"
    /\ \E target_arch \in TargetArchs :
         LET r == builder_new(manifest, target_arch) IN
         IF r.ok
         THEN /\ builder' = Some(r.val)
              /\ pc' = "files"
              /\ UNCHANGED result
         ELSE /\ Return(r)
              /\ UNCHANGED builder
    /\ UNCHANGED <<manifest, parent, call, files, idx, examined, pos, probes,
                   table, tidx>>

\* files(), lines 58-68.
FilesAssets ==
    /\ pc = "files"
    /\ LET r == files_assets(manifest) IN
       IF r.ok
       THEN /\ files' = <<>>
            /\ idx' = 0
            /\ pc' = "files_loop"
            /\ UNCHANGED result
       ELSE /\ Return(r)
            /\ UNCHANGED <<files, idx>>
    /\ UNCHANGED <<manifest, parent, call, examined, builder, pos, probes,
                   table, tidx>>

\* The iteration of files() with an invalid element skipped, not returned.
FilesElement_skip_invalid ==
    /\ pc = "files_loop"
    /\ idx < Len(files_assets(manifest).val)
    /\ LET r == files_element(files_assets(manifest).val[idx + 1], idx) IN
       /\ examined' = Append(examined, idx)
       /\ files' = IF r.ok THEN Append(files, r.val) ELSE files
       /\ idx' = idx + 1
       /\ UNCHANGED <<pc, result>>
    /\ UNCHANGED <<manifest, parent, call, builder, pos, probes, table, tidx>>

\* The iteration of files() with the new entry put first.
FilesElement_prepend ==
    /\ pc = "files_loop"
    /\ idx < Len(files_assets(manifest).val)
    /\ LET r == files_element(files_assets(manifest).val[idx + 1], idx) IN
       /\ examined' = Append(examined, idx)
       /\ IF r.ok
          THEN /\ files' = <<r.val>> \o files
               /\ idx' = idx + 1
               /\ UNCHANGED <<pc, result>>
          ELSE /\ result' = IF call = "create_rpm_builder" THEN into_error(r) ELSE r
               /\ pc' = "done"
               /\ UNCHANGED <<files, idx>>
    /\ UNCHANGED <<manifest, parent, call, builder, pos, probes, table, tidx>>

\* files(), lines 69-77: one iteration.
FilesElement ==
    /\ pc = "files_loop"
    /\ idx < Len(files_assets(manifest).val)
    /\ LET r == files_element(files_assets(manifest).val[idx + 1], idx) IN
       /\ examined' = Append(examined, idx)
       /\ IF r.ok
          THEN /\ files' = Append(files, r.val)
               /\ idx' = idx + 1
               /\ UNCHANGED <<pc, result>>
          ELSE /\ Return(r)
               /\ UNCHANGED <<files, idx>>
    /\ UNCHANGED <<manifest, parent, call, builder, pos, probes, table, tidx>>

\* files() returning from inside the loop, once one element is resolved.
FilesReturn_early ==
    /\ pc = "files_loop"
    /\ idx >= 1 \/ idx = Len(files_assets(manifest).val)
    /\ IF call = "files"
       THEN /\ result' = Ok(files)
            /\ pc' = "done"
       ELSE /\ pc' = "locate"
            /\ UNCHANGED result
    /\ UNCHANGED <<manifest, parent, call, files, idx, examined, builder, pos,
                   probes, table, tidx>>

\* files(), line 78; in create_rpm_builder the value is what line 142 loops over.
FilesReturn ==
    /\ pc = "files_loop"
    /\ idx = Len(files_assets(manifest).val)
    /\ IF call = "files"
       THEN /\ result' = Ok(files)
            /\ pc' = "done"
       ELSE /\ pc' = "locate"
            /\ UNCHANGED result
    /\ UNCHANGED <<manifest, parent, call, files, idx, examined, builder, pos,
                   probes, table, tidx>>

\* What the filesystem can answer for two candidates: one path has one
\* answer, and the empty path does not exist.
FsAnswers(cands) ==
    { e \in [1..2 -> BOOLEAN] :
        /\ cands[1] = cands[2] => e[1] = e[2]
        /\ \A k \in 1..2 : cands[k] = <<>> => ~e[k] }

\* create_rpm_builder, lines 142-155: one iteration.  with_file reads the
\* file and may fail (RPMError).
LocateFile ==
    /\ pc = "locate"
    /\ pos < Len(files)
    /\ LET file == files[pos + 1]
           options == generate_rpm_file_options(file)
           cands == candidates(parent, file.source)
       IN  \E exists \in FsAnswers(cands), with_file_ok \in BOOLEAN :
             LET file_source == find_existing(cands, exists) IN
             /\ file_source.some \/ with_file_ok
             /\ probes' = Append(probes, [source |-> file.source,
                                          cands |-> cands, exists |-> exists,
                                          handed |-> file_source])
             /\ IF ~file_source.some
                THEN /\ Return(Err(AssetFileNotFound(file.source)))
                     /\ UNCHANGED <<builder, pos>>
                ELSE IF ~with_file_ok
                THEN /\ result' = Err(ErrorRpm)
                     /\ pc' = "done"
                     /\ UNCHANGED <<builder, pos>>
                ELSE /\ builder' = Some([builder.val EXCEPT !.files =
                                    Append(@, <<file_source.val, options>>)])
                     /\ pos' = pos + 1
                     /\ UNCHANGED <<pc, result>>
    /\ UNCHANGED <<manifest, parent, call, files, idx, examined, table, tidx>>

\* create_rpm_builder, lines 157-177.
BuilderTail ==
    /\ pc = "locate"
    /\ pos = Len(files)
    /\ LET r == builder_tail(metadata(manifest).val, builder.val) IN
       /\ result' = into_error(r)
       /\ pc' = "done"
       /\ builder' = IF r.ok THEN Some(r.val) ELSE builder
    /\ UNCHANGED <<manifest, parent, call, files, idx, examined, pos, probes,
                   table, tidx>>

Next ==
    \/ BuilderNew
    \/ FilesAssets
    \/ FilesElement
    \/ FilesReturn
    \/ LocateFile
    \/ BuilderTail

Spec == Init /\ [][Next]_vars

\* ------------------------------------------------------------------------
\* _handle_file and _get_mode called on one asset table
\* ------------------------------------------------------------------------
sFileAB == <<"a", "/", "b", ".", "t", "x", "t">>
sDirAB == <<"a", "/", "b", "/">>

\* Twenty-three and twenty-two octal digits: the least numeral of too many
\* digits and the least one of the full length that does not fit 64 bits.
sOver23 == <<"1">> \o [i \in 1..22 |-> "0"]
sOver22 == <<"2">> \o [i \in 1..21 |-> "0"]

ModeStrings ==
    { <<>>, <<"+">>, <<"-">>, <<"8">>, <<"6", "4", "x">>, <<"-", "6", "4", "4">>,
      <<"6", " ", "4">>, sOver23, sOver22,
      <<"0">>, s644, s755, <<"+", "7", "5", "5">>, <<"0", "6", "4", "4">>,
      <<"1", "2", "0", "6", "4", "4">>, <<"4", "0", "7", "5", "5">>,
      <<"1", "0", "0", "6", "4", "4">>, <<"1", "0", "0", "0", "0">>,
      <<"2", "0", "0", "6", "4", "4">>, <<"1", "7", "7", "7", "7", "7">> }

\* The values a key can hold, EmptyTable standing for the key being absent.
KeyTables(key, values) == {EmptyTable} \cup { key :> v : v \in values }

SourceTables ==
    KeyTables("source", {IntegerV(1), StringV(<<>>), StringV(sFileAB), StringV(sDirAB)})
DestTables == KeyTables("dest", {BooleanV(TRUE), StringV(<<>>), StringV(sDest)})
UserTables == KeyTables("user", {StringV(sText), IntegerV(1)})
GroupTables == KeyTables("group", {StringV(sText), IntegerV(1)})
ModeTables ==
    KeyTables("mode", {IntegerV(644), StringV(s644), StringV(<<"8">>),
                       StringV(<<"1", "2", "0", "6", "4", "4">>)})
ConfigTables == KeyTables("config", {BooleanV(TRUE), BooleanV(FALSE), StringV(sText)})
DocTables == KeyTables("doc", {BooleanV(TRUE), IntegerV(1)})

\* Every combination of the above: the argument of _handle_file.
HandleTables ==
    { s @@ d @@ u @@ g @@ m @@ c @@ o :
        s \in SourceTables, d \in DestTables, u \in UserTables, g \in GroupTables,
        m \in ModeTables, c \in ConfigTables, o \in DocTables }

\* The mode key of any type and every string above, with a source that
\* _get_source accepts (line 182 precedes line 187).
GetModeTables ==
    { s @@ m :
        s \in { "source" :> StringV(x) : x \in {<<>>, sFileAB, sDirAB, sFile, sDir} },
        m \in KeyTables("mode", {IntegerV(644), BooleanV(TRUE)}
                                  \cup { StringV(x) : x \in ModeStrings }) }

InitEntry ==
    /\ \/ call = "_handle_file" /\ table \in HandleTables
       \/ call = "_get_mode" /\ table \in GetModeTables
    /\ tidx \in 0..(MaxAssets - 1)
    /\ pc = "call"
    /\ manifest = [package |-> None]
    /\ parent = <<>>
    /\ files = <<>>
    /\ idx = 0
    /\ examined = <<>>
    /\ builder = None
    /\ pos = 0
    /\ probes = <<>>
    /\ result = None

CallHandleFile ==
    /\ call = "_handle_file"
    /\ pc = "call"
    /\ result' = _handle_file(table, tidx)
    /\ pc' = "done"
    /\ UNCHANGED <<manifest, parent, call, files, idx, examined, builder, pos,
                   probes, table, tidx>>

\* _get_mode as line 187 calls it: with the source read at line 182.
CallGetMode ==
    /\ call = "_get_mode"
    /\ pc = "call"
    /\ _get_source(table, tidx).ok
    /\ result' = _get_mode(table, _get_source(table, tidx).val, tidx)
    /\ pc' = "done"
    /\ UNCHANGED <<manifest, parent, call, files, idx, examined, builder, pos,
                   probes, table, tidx>>

NextEntry ==
    \/ CallHandleFile
    \/ CallGetMode

SpecEntry == InitEntry /\ [][NextEntry]_vars

\* ------------------------------------------------------------------------
\* Properties of one asset entry (SpecEntry)
\* ------------------------------------------------------------------------
EntryDone == pc = "done" /\ call \in {"_handle_file", "_get_mode"}

\* The mode the call resolved: the result of _get_mode, or the mode field of
\* the FileInfo _handle_file returned.
ResolvedMode == IF call = "_get_mode" THEN result.val ELSE result.val.mode

HasString(key) == key \in DOMAIN table /\ table[key][1] = "String"
HasNonString(key) == key \in DOMAIN table /\ table[key][1] # "String"
HasNonBool(key) == key \in DOMAIN table /\ table[key][1] # "Boolean"
ModeParses == HasString("mode") /\ from_str_radix8(table["mode"][2]).ok
SourceEndsWithSlash ==
    Len(table["source"][2]) > 0 /\ table["source"][2][Len(table["source"][2])] = "/"

\* C1: a mode string that parses as octal to m resolves to m itself when m
\* has type bits (m & 0o170000 # 0), else to 0o040000 | m when the source
\* ends with '/' and to 0o100000 | m when it does not; "644" gives 0o100644
\* for "a/b.txt" and 0o040644 for "a/b/"; an absent mode resolves to absent.
C1_ModeTypeBits ==
    (EntryDone /\ result.ok) =>
        /\ "mode" \notin DOMAIN table => ResolvedMode = None
        /\ ModeParses =>
             LET m == from_str_radix8(table["mode"][2]).val IN
             /\ (m \div 4096) % 16 # 0 => ResolvedMode = Some(m)
             /\ ((m \div 4096) % 16 = 0 /\ SourceEndsWithSlash)
                    => ResolvedMode = Some(16384 + m)
             /\ ((m \div 4096) % 16 = 0 /\ ~SourceEndsWithSlash)
                    => ResolvedMode = Some(32768 + m)
        /\ (HasString("mode") /\ table["mode"][2] = s644
                /\ table["source"][2] = sFileAB) => ResolvedMode = Some(33188)
        /\ (HasString("mode") /\ table["mode"][2] = s644
                /\ table["source"][2] = sDirAB) => ResolvedMode = Some(16804)
        /\ (HasString("mode")
                /\ table["mode"][2] = <<"1", "2", "0", "6", "4", "4">>)
             => ResolvedMode = Some(41380)

C1_Witness ==
    /\ EntryDone
    /\ call = "_get_mode"
    /\ table["source"][2] = sDirAB
    /\ HasString("mode") /\ table["mode"][2] = s644
    /\ result = Ok(Some(16804))

\* C8 as stated: a mode that is present and does not parse as an octal
\* string, whatever its type, fails with AssetFileWrongType(idx, "mode",
\* "oct-string").
C8_AnyTypeOctString ==
    (EntryDone /\ call = "_get_mode" /\ "mode" \in DOMAIN table /\ ~ModeParses)
        => result = Err(AssetFileWrongType(tidx, "mode", "oct-string"))

\* C8 amended: a mode that is a string and does not parse as octal (a
\* non-octal string, the empty string, a value that does not fit usize) fails
\* with AssetFileWrongType(idx, "mode", "oct-string"); a mode that is not a
\* string (an integer, a boolean) fails with AssetFileWrongType(idx, "mode",
\* "string").  It is the error of _handle_file when source, dest, user and
\* group, which are read first, are valid.
C8_ModeErrors ==
    (/\ EntryDone
     /\ "mode" \in DOMAIN table
     /\ call = "_handle_file" =>
            /\ HasString("source") /\ HasString("dest")
            /\ ~HasNonString("user") /\ ~HasNonString("group"))
        => /\ (HasString("mode") /\ ~ModeParses)
                => result = Err(AssetFileWrongType(tidx, "mode", "oct-string"))
           /\ (HasString("mode") /\ table["mode"][2] \in {<<>>, <<"8">>, sOver22})
                => result = Err(AssetFileWrongType(tidx, "mode", "oct-string"))
           /\ HasNonString("mode")
                => result = Err(AssetFileWrongType(tidx, "mode", "string"))

C8_Witness ==
    /\ EntryDone
    /\ call = "_handle_file"
    /\ "mode" \in DOMAIN table /\ table["mode"] = IntegerV(644)
    /\ result = Err(AssetFileWrongType(tidx, "mode", "string"))

\* A required key that is missing or no string, an optional key that is
\* present and unusable, and the error _get_source / _get_dest give.
RequiredDefect(key) == key \notin DOMAIN table \/ HasNonString(key)
OptionalDefect ==
    \/ HasNonString("user")
    \/ HasNonString("group")
    \/ ("mode" \in DOMAIN table /\ ~ModeParses)
    \/ HasNonBool("config")
    \/ HasNonBool("doc")
RequiredError(key) ==
    IF key \notin DOMAIN table THEN AssetFileUndefined(tidx, key)
    ELSE AssetFileWrongType(tidx, key, "string")

\* C9: when source or dest is missing or not a string and an optional key
\* (user, group, mode, config, doc) is invalid too, the error names the
\* required field: the first of source, dest that is defective.
C9_RequiredNotMasked ==
    (/\ EntryDone
     /\ call = "_handle_file"
     /\ RequiredDefect("source") \/ RequiredDefect("dest")
     /\ OptionalDefect)
        => /\ ~result.ok
           /\ result.err[3] \in {"source", "dest"}
           /\ RequiredDefect("source") => result.err = RequiredError("source")
           /\ ~RequiredDefect("source") => result.err = RequiredError("dest")

C9_Witness ==
    /\ EntryDone
    /\ call = "_handle_file"
    /\ HasString("source")
    /\ "dest" \notin DOMAIN table
    /\ HasNonString("user")
    /\ HasNonBool("doc")
    /\ result = Err(AssetFileUndefined(tidx, "dest"))

\* ------------------------------------------------------------------------
\* Properties of files() and create_rpm_builder (Spec)
\* ------------------------------------------------------------------------
\* The manifest, read structurally.
Pkg == manifest.package.val
MetaIsTable ==
    manifest.package.some /\ Pkg.metadata.some /\ Pkg.metadata.val[1] = "Table"
MetaTable == Pkg.metadata.val[2]
RpmIsTable ==
    /\ MetaIsTable
    /\ "generate-rpm" \in DOMAIN MetaTable
    /\ MetaTable["generate-rpm"][1] = "Table"
RpmTable == MetaTable["generate-rpm"][2]
HasAssetsArray ==
    RpmIsTable /\ "assets" \in DOMAIN RpmTable /\ RpmTable["assets"][1] = "Array"
AssetsArray == RpmTable["assets"][2]

KeyIs(t, key, type) == key \in DOMAIN t /\ t[key][1] = type
KeyAbsentOr(t, key, type) == key \notin DOMAIN t \/ t[key][1] = type

\* An element of the array that resolves to a File Entry.
ValidAsset(v) ==
    /\ v[1] = "Table"
    /\ KeyIs(v[2], "source", "String")
    /\ KeyIs(v[2], "dest", "String")
    /\ KeyAbsentOr(v[2], "user", "String")
    /\ KeyAbsentOr(v[2], "group", "String")
    /\ \/ "mode" \notin DOMAIN v[2]
       \/ KeyIs(v[2], "mode", "String") /\ from_str_radix8(v[2]["mode"][2]).ok
    /\ KeyAbsentOr(v[2], "config", "Boolean")
    /\ KeyAbsentOr(v[2], "doc", "Boolean")

SomeInvalidAsset ==
    HasAssetsArray /\ \E i \in 1..Len(AssetsArray) : ~ValidAsset(AssetsArray[i])
AllAssetsValid ==
    HasAssetsArray /\ \A i \in 1..Len(AssetsArray) : ValidAsset(AssetsArray[i])
\* The position (from 1) of the first invalid element.
FirstInvalid ==
    CHOOSE i \in 1..Len(AssetsArray) :
        /\ ~ValidAsset(AssetsArray[i])
        /\ \A j \in 1..(i - 1) : ValidAsset(AssetsArray[j])

InCall == call \in {"files", "create_rpm_builder"}
\* files() has run to its return: it is the call and has returned, or
\* create_rpm_builder has reached line 142 and gone on (or returned).
FilesRan == (call = "files" /\ pc = "done") \/ (call = "create_rpm_builder" /\ builder.some /\ pc \in {"locate", "done"})
\* The error returned, as the call running reports it.
Returned(e) ==
    /\ pc = "done"
    /\ result = IF call = "files" THEN Err(e) ELSE Err(ErrorConfig(e))
\* files() returned Ok: its value.
FilesOk ==
    \/ call = "files" /\ pc = "done" /\ result.ok
    \/ call = "create_rpm_builder" /\ pc = "locate"
FilesValue == IF call = "files" THEN result.val ELSE files

\* C4: locating the configuration fails at the outermost broken link of
\* package -> package.metadata -> package.metadata.generate-rpm -> assets,
\* with the error of that link.
C4_ChainErrors ==
    (InCall /\ pc = "done") =>
        /\ ~manifest.package.some => Returned(Missing("package"))
        /\ (manifest.package.some /\ ~Pkg.metadata.some)
              => Returned(Missing("package.metadata"))
        /\ (manifest.package.some /\ Pkg.metadata.some /\ ~MetaIsTable)
              => Returned(WrongType("package.metadata", "table"))
        /\ (MetaIsTable /\ "generate-rpm" \notin DOMAIN MetaTable)
              => Returned(Missing("package.metadata.generate-rpm"))
        /\ (MetaIsTable /\ "generate-rpm" \in DOMAIN MetaTable /\ ~RpmIsTable)
              => Returned(WrongType("package.metadata.generate-rpm", "table"))
        /\ (RpmIsTable /\ FilesRan /\ "assets" \notin DOMAIN RpmTable)
              => Returned(Missing("package.metadata.generate-rpm.assets"))
        /\ (RpmIsTable /\ FilesRan /\ "assets" \in DOMAIN RpmTable /\ ~HasAssetsArray)
              => Returned(WrongType("package.metadata.generate-rpm.assets", "array"))

C4_Witness ==
    /\ call = "files"
    /\ RpmIsTable /\ "assets" \in DOMAIN RpmTable /\ RpmTable["assets"][1] = "Table"
    /\ Returned(WrongType("package.metadata.generate-rpm.assets", "array"))

\* C3: with an invalid element in the array, files() returns an error that
\* carries the least index of an invalid element, has looked at no element
\* of a higher index, and returns no list; a first invalid element with a
\* valid source and no dest gives AssetFileUndefined(idx, "dest"), one that
\* is no table gives AssetFileUndefined(idx, "source").
C3_FailFast ==
    (FilesRan /\ SomeInvalidAsset) =>
        LET k == FirstInvalid
            v == AssetsArray[k]
        IN  /\ pc = "done"
            /\ ~result.ok
            /\ \/ \E f \in {"source", "dest"} : Returned(AssetFileUndefined(k - 1, f))
               \/ \E f \in {"source", "dest", "user", "group", "mode", "config", "doc"},
                     t \in {"string", "oct-string", "bool"} :
                        Returned(AssetFileWrongType(k - 1, f, t))
            /\ examined = [i \in 1..k |-> i - 1]
            /\ Len(files) = k - 1
            /\ (v[1] = "Table" /\ KeyIs(v[2], "source", "String")
                    /\ "dest" \notin DOMAIN v[2])
                  => Returned(AssetFileUndefined(k - 1, "dest"))
            /\ v[1] # "Table" => Returned(AssetFileUndefined(k - 1, "source"))

C3_Witness ==
    /\ call = "files"
    /\ HasAssetsArray
    /\ Len(AssetsArray) = 2
    /\ ~ValidAsset(AssetsArray[2])
    /\ examined = <<0>>
    /\ Returned(AssetFileUndefined(0, "dest"))

\* C6 as stated: every File Entry of a successful resolution has a source
\* and a dest that are non-empty strings.
C6_NonEmpty ==
    FilesOk =>
        \A i \in 1..Len(FilesValue) :
            FilesValue[i].source # <<>> /\ FilesValue[i].dest # <<>>

FileInfoFields == {"source", "dest", "user", "group", "mode", "config", "doc"}

\* C6 amended: every File Entry of a successful resolution has all seven
\* fields, and its source and dest are the strings the asset table holds
\* under those keys, empty or not (emptiness is not checked); an entry is
\* never partially populated, and a failed resolution returns no entries.
C6_PresentStrings ==
    /\ \A i \in 1..Len(files) : DOMAIN files[i] = FileInfoFields
    /\ FilesOk =>
         /\ HasAssetsArray
         /\ \A i \in 1..Len(FilesValue) :
              /\ DOMAIN FilesValue[i] = FileInfoFields
              /\ AssetsArray[i][1] = "Table"
              /\ KeyIs(AssetsArray[i][2], "source", "String")
              /\ KeyIs(AssetsArray[i][2], "dest", "String")
              /\ FilesValue[i].source = AssetsArray[i][2]["source"][2]
              /\ FilesValue[i].dest = AssetsArray[i][2]["dest"][2]
    /\ (call = "files" /\ pc = "done" /\ ~result.ok) => DOMAIN result = {"ok", "err"}

C6_Witness ==
    /\ call = "files"
    /\ pc = "done"
    /\ result.ok
    /\ Len(result.val) = 2
    /\ result.val[1].source = <<>>
    /\ result.val[1].dest = <<>>
    /\ result.val[2].source = sFile

\* C7: a successful resolution returns one File Entry per element of the
\* array, in the order of the array, entry i read from element i alone;
\* user and group are absent and config and doc false where the key is
\* absent.
C7_OneEntryPerElement ==
    FilesOk =>
        /\ HasAssetsArray
        /\ Len(FilesValue) = Len(AssetsArray)
        /\ \A i \in 1..Len(AssetsArray) :
             LET t == AssetsArray[i][2]
                 e == FilesValue[i]
             IN  /\ e.source = t["source"][2]
                 /\ e.dest = t["dest"][2]
                 /\ e.user = IF "user" \in DOMAIN t THEN Some(t["user"][2]) ELSE None
                 /\ e.group = IF "group" \in DOMAIN t THEN Some(t["group"][2]) ELSE None
                 /\ e.mode.some <=> "mode" \in DOMAIN t
                 /\ e.config = IF "config" \in DOMAIN t THEN t["config"][2] ELSE FALSE
                 /\ e.doc = IF "doc" \in DOMAIN t THEN t["doc"][2] ELSE FALSE

C7_Witness ==
    /\ call = "files"
    /\ pc = "done"
    /\ result.ok
    /\ Len(result.val) = 2
    /\ result.val[1] = FileInfo(sDir, sDest, Some(sText), Some(sText),
                                Some(16877), TRUE, TRUE)
    /\ result.val[2] = FileInfo(sFile, sDest, None, None, Some(33188), FALSE, FALSE)

\* C5: the path given to with_file is the source as given when that exists,
\* else the source joined to the directory of the manifest when that exists;
\* when neither exists the call fails with AssetFileNotFound(source), the
\* source unmodified.
C5_SearchPath ==
    call = "create_rpm_builder" =>
        \A i \in 1..Len(probes) :
            LET p == probes[i]
                src == files[i].source
            IN  /\ p.source = src
                /\ p.cands[1] = src
                /\ p.cands[2] = IF src # <<>> /\ src[1] = "/" THEN src
                                ELSE IF parent = <<>> THEN src
                                ELSE parent \o <<"/">> \o src
                /\ p.exists[1] => p.handed = Some(p.cands[1])
                /\ (~p.exists[1] /\ p.exists[2]) => p.handed = Some(p.cands[2])
                /\ (~p.exists[1] /\ ~p.exists[2]) =>
                     /\ p.handed = None
                     /\ i = Len(probes)
                     /\ Len(builder.val.files) = i - 1
                     /\ Returned(AssetFileNotFound(src))
                /\ Len(builder.val.files) >= i =>
                     builder.val.files[i][1] = p.handed.val

C5_Witness ==
    /\ call = "create_rpm_builder"
    /\ parent = <<"p">>
    /\ Len(probes) = 2
    /\ probes[1].exists = <<FALSE, TRUE>>
    /\ builder.val.files[1][1] = <<"p", "/", "f">>
    /\ probes[2].exists = <<FALSE, FALSE>>
    /\ Returned(AssetFileNotFound(sDir))

\* The error files() returns for the first invalid element, as
\* create_rpm_builder reports it.
FirstInvalidReturned ==
    \/ \E f \in {"source", "dest"} :
          Returned(AssetFileUndefined(FirstInvalid - 1, f))
    \/ \E f \in {"source", "dest", "user", "group", "mode", "config", "doc"},
          t \in {"string", "oct-string", "bool"} :
             Returned(AssetFileWrongType(FirstInvalid - 1, f, t))

NoFileLocated ==
    /\ probes = <<>>
    /\ builder.some => builder.val.files = <<>>

\* AssetFileNotFound is returned only with every asset valid, and names the
\* asset of least index whose source is at neither place.
NotFoundIsFirstMissing ==
    (/\ pc = "done"
     /\ ~result.ok
     /\ result.err[1] = "Config"
     /\ result.err[2][1] = "AssetFileNotFound")
        => /\ AllAssetsValid
           /\ probes # <<>>
           /\ probes[Len(probes)].exists = <<FALSE, FALSE>>
           /\ result.err[2][2] = AssetsArray[Len(probes)][2]["source"][2]
           /\ \A i \in 1..(Len(probes) - 1) :
                 probes[i].exists[1] \/ probes[i].exists[2]

\* C10 as stated: in create_rpm_builder, with an invalid asset at any index
\* the call returns that validation error and makes no existence probe and
\* no with_file step; AssetFileNotFound is returned only with every asset
\* valid and names the first asset not found.  Stated for the manifests
\* whose metadata holds neither license nor summary, where the package
\* fields are the only source of both.
C10_ValidationErrorReturned ==
    call = "create_rpm_builder" =>
        /\ (pc = "done" /\ SomeInvalidAsset
                /\ "license" \notin DOMAIN RpmTable
                /\ "summary" \notin DOMAIN RpmTable) =>
              FirstInvalidReturned /\ NoFileLocated
        /\ NotFoundIsFirstMissing

\* C10 amended: in create_rpm_builder the whole array is validated before
\* the first existence probe and the first with_file step; with an invalid
\* asset at any index the call makes no probe and no with_file step and
\* returns an error: that validation error, unless the package scalars
\* (name, version, license, summary) failed to resolve first, and then that
\* Missing or WrongType error; AssetFileNotFound is returned only with every
\* asset valid and names the first asset not found.
C10_ValidatedBeforeProbe ==
    call = "create_rpm_builder" =>
        /\ ~NoFileLocated =>
              /\ AllAssetsValid
              /\ Len(files) = Len(AssetsArray)
              /\ examined = [i \in 1..Len(AssetsArray) |-> i - 1]
        /\ (pc = "done" /\ SomeInvalidAsset) =>
              /\ NoFileLocated
              /\ ~result.ok
              /\ builder.some => FirstInvalidReturned
              /\ ~builder.some =>
                    /\ examined = <<>>
                    /\ result.err[1] = "Config"
                    /\ result.err[2][1] \in {"Missing", "WrongType"}
        /\ NotFoundIsFirstMissing

C10_Witness ==
    /\ call = "create_rpm_builder"
    /\ HasAssetsArray
    /\ Len(AssetsArray) = 2
    /\ ValidAsset(AssetsArray[1])
    /\ AssetsArray[2][1] # "Table"
    /\ builder.some
    /\ NoFileLocated
    /\ Returned(AssetFileUndefined(1, "source"))

\* C2: license (summary/description) is taken from the metadata key when
\* it is there and from the package field only when it is not; the call
\* fails with Missing("package.license") (Missing("package.description"))
\* only when the value is absent from the metadata and from the package.
C2_FallbackOnlyWhenAbsent ==
    (call = "create_rpm_builder" /\ pc = "done" /\ RpmIsTable) =>
        /\ Returned(Missing("package.license"))
              => ("license" \notin DOMAIN RpmTable /\ ~Pkg.license.some)
        /\ Returned(Missing("package.description"))
              => ("summary" \notin DOMAIN RpmTable /\ ~Pkg.description.some)
        /\ (result.ok /\ KeyIs(RpmTable, "license", "String"))
              => result.val.license = RpmTable["license"][2]
        /\ (result.ok /\ KeyIs(RpmTable, "summary", "String"))
              => result.val.desc = RpmTable["summary"][2]

====
